---- MODULE Spec2Model ----
(***************************************************************************)
(* Concurrent Bloom filter: the bit-vector core, its RWMutex guard, the    *)
(* compatibility check and the union operations.                           *)
(*                                                                         *)
(* A uint64 word of the bit vector is represented by the set of its set    *)
(* bit positions (a subset of 0..63): atomic Or is set union, Load reads   *)
(* the set, Store replaces it.  Keys and hashes are naturals.              *)
(* Every atomic memory access and every guard acquisition or release of a  *)
(* method is one step of the calling thread.                               *)
(***************************************************************************)
EXTENDS Integers, Sequences, FiniteSets, TLC

\* ------------------------------------------------------------- bounds
MaxCalls == 3        \* calls started in one behaviour of Spec
MaxSeqCalls == 3     \* calls started in one behaviour of SeqSpec
MaxRaceCalls == 2    \* calls started in one behaviour of RaceSpec
MaxNew == 1          \* filters created by Copy / Union in one behaviour

InitIds == {1, 2}    \* filters that exist at the start

Threads == {1, 2}
SeqThreads == {1}
Hashes == {5, 70}    \* values of v.Sum64()
\* With m = 64 and keys <<1>> the hashes 5 and 69 both map to bit 4.
ScenarioHashes == {5, 69}

FilterIds == 1..(Cardinality(InitIds) + MaxNew)
NoFilter == 0

\* (m, keys) of the filters that exist at the start.  With keys <<1, 65>> and
\* m = 128 hash 5 maps to bits 4 (word 0) and 68 (word 1), hash 70 to bits 71
\* (word 1) and 7 (word 0).  With keys <<1, 129>> both keys map a hash to the
\* same bit.
BaseShape == [m |-> 128, keys |-> <<1, 65>>]
SeqShapes == { BaseShape,
               [m |-> 70,  keys |-> <<1, 65>>],
               [m |-> 128, keys |-> <<1>>],
               [m |-> 128, keys |-> <<1, 129>>],
               [m |-> 70,  keys |-> <<2>>] }
ScenarioShapes == { [m |-> 64, keys |-> <<1>>] }
ConcShapes == { BaseShape, [m |-> 128, keys |-> <<1>>] }

\* ------------------------------------------------- uint64 arithmetic
RECURSIVE xor64(_, _)
\* a ^ b
xor64(a, b) ==
    IF a = 0 THEN b
    ELSE IF b = 0 THEN a
    ELSE (((a % 2) + (b % 2)) % 2) + (2 * xor64(a \div 2, b \div 2))

RECURSIVE or64(_, _)
\* a | b
or64(a, b) ==
    IF a = 0 THEN b
    ELSE IF b = 0 THEN a
    ELSE (IF (a % 2) = 1 \/ (b % 2) = 1 THEN 1 ELSE 0) + (2 * or64(a \div 2, b \div 2))

\* i >> 5
wordIndexHalf(i) == i \div 32
\* i >> 6
wordIndex(i) == i \div 64
\* uint(i & 0x3f)
bitOffset(i) == i % 64
\* 1 << uint(i), as a word: a shift by 64 or more leaves no bit
bitMaskUnmasked(i) == { i } \cap (0..63)
\* 1 << uint(i&0x3f), as a word
bitMask(i) == { bitOffset(i) }

\* Store in place of Or: the word is overwritten
OrStore(w, v) == v
\* atomic.Uint64.Or: the new value of a word holding w
Or(w, v) == w \cup v

\* (word >> uint(i)) & 1: the shift count is not masked
getBitNoMask(w, i) == IF i \in w THEN 1 ELSE 0
\* (word >> uint(i&0x3f)) & 1
getBit(w, i) == IF bitOffset(i) \in w THEN 1 ELSE 0

\* r = x in place of r &= x
and1Assign(r, x) == x
\* r |= x in place of r &= x
and1Or(r, x) == IF r = 1 \/ x = 1 THEN 1 ELSE 0
\* r &= x, for r and x in {0, 1}
and1(r, x) == IF r = 1 /\ x = 1 THEN 1 ELSE 0

uint64ToBool(x) == x # 0

\* for i, v := range f.bits copies the element f.bits[i], an atomic.Uint64,
\* with a plain read.  While another goroutine updates the word this is a data
\* race: a build with 64-bit words reads the word at one instant, a build
\* with 32-bit words reads its halves at two instants, in either order.
LoHalf == 0..31
HiHalf == 32..63
\* the copy made of the half H read first and of the other half read later
plainRead(first, later, H) == (first \cap H) \cup (later \ H)

\* The index expression b1[i] is out of range: the goroutine panics.
PANIC == -1

RECURSIVE noBranchLoop(_, _, _, _)
noBranchLoop(b0, b1, i, r) ==
    IF i > Len(b0) THEN r
    ELSE IF i > Len(b1) THEN PANIC
    ELSE noBranchLoop(b0, b1, i + 1, or64(r, xor64(b0[i], b1[i])))

\* the comparison stops after the first key
noBranchFirstOnly(b0, b1) ==
    IF Len(b0) = 0 THEN 0
    ELSE IF Len(b1) = 0 THEN PANIC
    ELSE xor64(b0[1], b1[1])
\* returns 0 if equal, does not compare len(b0) with len(b1)
noBranchCompareUint64s(b0, b1) == noBranchLoop(b0, b1, 1, 0)

\* f.hash(v): rawHash ^ f.keys[i] for every key
hash(ks, rawHash) == [i \in 1..Len(ks) |-> xor64(rawHash, ks[i])]

\* ------------------------------------------------------------- state
VARIABLES
    m,       \* m[f]: number of bits of filter f (0: the slot holds no filter)
    keys,    \* keys[f]: the key sequence of filter f
    bits,    \* bits[f][i]: word i of filter f, i in 0..len(f.bits)-1
    n,       \* n[f]: the insertion counter of filter f
    lock,    \* lock[f]: the RWMutex of filter f
    live,    \* filters a caller holds a pointer to
    th,      \* th[t]: the call thread t is running, its locals and position
    calls,   \* calls started so far
    limit,   \* calls one behaviour may start
    added,   \* history: added[f], hashes whose Add / AddC on f has returned
    copyOf,  \* history: copyOf[f], the filter f was copied from by Copy
    gh,      \* history: gh[t], what the call of thread t has seen so far
    tracing, \* whether gh records snapshots and the words read
    inputs,  \* the hash values the callers pass
    ins      \* history: ins[f].base, the n filter f was created with, and
             \* ins[f].done, the Add and AddC calls on f that have returned

vars == <<m, keys, bits, n, lock, live, th, calls, limit, added, copyOf, gh, tracing, inputs, ins>>

\* len(f.bits) of a filter of mm bits
NWords(mm) == (mm + 63) \div 64
ZeroBits(mm) == [i \in 0..(NWords(mm) - 1) |-> {}]

\* M is the size of Bloom filter, in bits
M(f) == m[f]
\* K is the count of keys
K(f) == Len(keys[f])
\* N is how many elements have been inserted
N(f) == n[f]

\* -------------------------------------------------------- statistics
\* float64 values are kept in fixed point: the float x is the integer x * One,
\* truncated.
One == 10000
\* math.Exp(-k) for a whole number k
mathExpNeg(k) ==
    IF k = 0 THEN One
    ELSE IF k <= 9 THEN <<3679, 1353, 498, 183, 67, 25, 9, 3, 1>>[k]
    ELSE 0
RECURSIVE mathPow(_, _)
\* math.Pow(b, k) for a whole number k
mathPow(b, k) == IF k = 0 THEN One ELSE (b * mathPow(b, k - 1)) \div One
\* math.Pow(1.0-math.Exp(-k)*(n+0.5)/(m-1), k), with n+0.5 written (2n+1)/2
fpp(k, nn, mm) ==
    mathPow(One - ((mathExpNeg(k) * (2 * nn + 1)) \div (2 * (mm - 1))), k)
\* FalsePosititveProbability is the upper-bound probability of false positives
FalsePosititveProbability(f) == fpp(K(f), N(f), M(f))

\* ------------------------------------------------------------ errors
NoEntry == [fmt |-> "", a |-> 0, b |-> 0]
\* fmt.Sprintf(format, a, b)
Sprintf(format, a, b) == [fmt |-> format, a |-> a, b |-> b]
Nil == [kind |-> "nil", s |-> <<>>]
Panicked == [kind |-> "panic", s |-> <<>>]
errIncompatibleBloomFilters(s) == [kind |-> "Incompatible", s |-> s]
IsEntry(i) == i # NoEntry
\* (e *errIncompatible).Error(): the non-empty entries of e.s, in order, after
\* the fixed prefix (strings.Join keeps them apart with ", ")
Error(e) ==
    [prefix |-> "Cannot perform union on two incompatible Bloom filters: ",
     out |-> SelectSeq(e.s, IsEntry)]

\* ------------------------------------------------------ compatibility
isCompatible(f, f2) ==
    /\ M(f) = M(f2)
    /\ K(f) = K(f2)
    /\ noBranchCompareUint64s(keys[f], keys[f2]) = 0

\* What verifyCompatible returns, or Panicked when its evaluation panics.
verifyCompatibleResult(f, f2) ==
    IF isCompatible(f, f2) THEN Nil
    ELSE LET e0 == IF M(f) # M(f2)
                   THEN Sprintf("M=%d and M=%d", K(f), K(f2)) ELSE NoEntry
             e1 == IF K(f) # K(f2)
                   THEN Sprintf("K=%d and K=%d", K(f), K(f2)) ELSE NoEntry
             c  == noBranchCompareUint64s(keys[f], keys[f2])
             e2 == IF c # 0
                   THEN Sprintf("Mismatched Keys", 0, 0) ELSE NoEntry
         IN  IF c = PANIC THEN Panicked
             ELSE errIncompatibleBloomFilters(<<e0, e1, e2>>)

\* ------------------------------------------------------------- guard
\* no thread has called Lock
NoWriter == 0
\* readers[t]: read locks thread t holds; writer: the thread that has called
\* Lock, if any; held: Lock has returned to it.
Unlocked == [readers |-> [t \in Threads |-> 0], writer |-> NoWriter, held |-> FALSE]
RECURSIVE Sum(_, _)
Sum(fn, S) == IF S = {} THEN 0
              ELSE LET x == CHOOSE y \in S : TRUE IN fn[x] + Sum(fn, S \ {x})
\* readerCount of the guard of f
Readers(f) == Sum(lock[f].readers, Threads)
\* RLock returns only while no Lock is pending or held
canRLock(f) == lock[f].writer = NoWriter
RLock(t, f) == [lock EXCEPT ![f].readers[t] = @ + 1]
RUnlock(t, f) == [lock EXCEPT ![f].readers[t] = @ - 1]

\* the counter is left as it was
nAddNone(c, d) == c
\* f.n.Add(d): the new value of a counter holding c
nAdd(c, d) == c + d

\* ----------------------------------------------------------- threads
Idle == [pc |-> "idle", op |-> "none", f |-> NoFilter, f2 |-> NoFilter,
         v |-> 0, h |-> <<>>, i |-> 0, r |-> 0, word |-> {}, buf |-> <<>>,
         out |-> NoFilter, err |-> Nil, ok |-> FALSE]

Start(op, f, f2, pc) ==
    [Idle EXCEPT !.pc = pc, !.op = op, !.f = f, !.f2 = f2]

\* An idle thread may start a call while the behaviour's budget allows.
MayCall(t) ==
    /\ th[t].pc = "idle"
    /\ calls < limit

\* History of a call: whether a Contains must answer true (must), the bits,
\* n, m and keys of every filter when the call started (pre), the hashes whose
\* insertion had returned by then (had), the words it has read from f (rd)
\* and from f2 (rd2), f's vector before the first word was merged into it
\* (before), and the values (bits, n) of f during the reads of a Copy (seen).
NoPre == [bits |-> <<>>, n |-> <<>>, m |-> <<>>, keys |-> <<>>]
NoGhost == [must |-> FALSE, pre |-> NoPre, had |-> <<>>, rd |-> <<>>, rd2 |-> <<>>,
            before |-> <<>>, seen |-> {}]
StartGhost == [NoGhost EXCEPT !.pre = IF tracing
                                      THEN [bits |-> bits, n |-> n, m |-> m, keys |-> keys]
                                      ELSE NoPre,
                              !.had = IF tracing THEN added ELSE <<>>]
InCopyReads(c) == th[c].pc \in {"Copy_getBits", "Copy_getBitsRest", "Copy_n"}
\* g with the new value of each filter a Copy is reading added to seen
Observe(g, newBits, newN) ==
    [c \in Threads |->
        IF tracing /\ InCopyReads(c)
        THEN [g[c] EXCEPT !.seen = @ \cup {[bits |-> newBits[th[c].f],
                                            n |-> newN[th[c].f]]}]
        ELSE g[c]]

Creating == { t \in Threads : th[t].op \in {"Copy", "Union"} }
Created == { x \in FilterIds \ InitIds : m[x] # 0 }
FreeSlot == CHOOSE x \in FilterIds :
                /\ m[x] = 0
                /\ \A y \in FilterIds : m[y] = 0 => x <= y

InitFilters(shapes) ==
    /\ \E s2 \in shapes :
         /\ m = [x \in FilterIds |-> IF x = 1 THEN BaseShape.m
                                     ELSE IF x = 2 THEN s2.m ELSE 0]
         /\ keys = [x \in FilterIds |-> IF x = 1 THEN BaseShape.keys
                                        ELSE IF x = 2 THEN s2.keys ELSE <<>>]
    /\ bits = [x \in FilterIds |-> ZeroBits(m[x])]
    /\ n = [x \in FilterIds |-> 0]
    /\ lock = [x \in FilterIds |-> Unlocked]
    /\ live = InitIds
    /\ th = [t \in Threads |-> Idle]
    /\ added = [x \in FilterIds |-> {}]
    /\ gh = [t \in Threads |-> NoGhost]
    /\ copyOf = [x \in FilterIds |-> NoFilter]
    /\ ins = [x \in FilterIds |-> [base |-> 0, done |-> 0]]
    /\ calls = 0

\* The words of a filter (mm, ks) on which Add has run for every hash of S
bitsAfter(mm, ks, S) ==
    [w \in 0..(NWords(mm) - 1) |->
        UNION { bitMask(hash(ks, v)[k] % mm) :
                  <<v, k>> \in { p \in S \X (1..Len(ks)) :
                                    wordIndex(hash(ks, p[1])[p[2]] % mm) = w } }]

\* Filter 1 after Add of the hashes S1, filter 2 after Add of the hashes S2
InitFilled(shapes, C1, C2) ==
    /\ \E s2 \in shapes :
         /\ m = [x \in FilterIds |-> IF x = 1 THEN BaseShape.m
                                     ELSE IF x = 2 THEN s2.m ELSE 0]
         /\ keys = [x \in FilterIds |-> IF x = 1 THEN BaseShape.keys
                                        ELSE IF x = 2 THEN s2.keys ELSE <<>>]
    /\ \E S1 \in C1, S2 \in C2 :
         /\ added = [x \in FilterIds |-> IF x = 1 THEN S1 ELSE IF x = 2 THEN S2 ELSE {}]
         /\ bits = [x \in FilterIds |-> bitsAfter(m[x], keys[x], added[x])]
         /\ n = [x \in FilterIds |-> Cardinality(added[x])]
    /\ lock = [x \in FilterIds |-> Unlocked]
    /\ live = InitIds
    /\ th = [t \in Threads |-> Idle]
    /\ gh = [t \in Threads |-> NoGhost]
    /\ copyOf = [x \in FilterIds |-> NoFilter]
    /\ ins = [x \in FilterIds |-> [base |-> 0, done |-> n[x]]]
    /\ calls = 0

\* Spec starts from two empty compatible filters; the calls on filters of
\* different shapes are those of SeqSpec and RaceSpec.
Init ==
    /\ InitFilters({BaseShape})
    /\ limit = MaxCalls /\ tracing = FALSE /\ inputs = Hashes
InitRace ==
    /\ InitFilled(ConcShapes, {{}}, {{5}})
    /\ limit = MaxRaceCalls /\ tracing = TRUE /\ inputs = Hashes
InitMerge ==
    /\ InitFilled({BaseShape}, {{}}, {{5}})
    /\ limit = MaxRaceCalls /\ tracing = TRUE /\ inputs = Hashes
InitSeq ==
    /\ InitFilters(SeqShapes)
    /\ limit = MaxSeqCalls /\ tracing = TRUE /\ inputs = Hashes
InitScenario ==
    /\ InitFilters(ScenarioShapes)
    /\ limit = MaxSeqCalls /\ tracing = TRUE /\ inputs = ScenarioHashes

\* -------------------------------------------------------------- Add
CallAdd(t, f, v) ==
    /\ MayCall(t) /\ f \in live /\ v \in inputs
    /\ th' = [th EXCEPT ![t] = [Start("Add", f, NoFilter, "Add_RLock")
                                  EXCEPT !.v = v, !.h = hash(keys[f], v)]]
    /\ calls' = calls + 1
    /\ gh' = [gh EXCEPT ![t] = StartGhost]
    /\ UNCHANGED <<m, keys, bits, n, lock, live, added, limit, copyOf, tracing, inputs, ins>>

Add_RLock(t) ==
    /\ th[t].pc = "Add_RLock"
    /\ canRLock(th[t].f)
    /\ lock' = RLock(t, th[t].f)
    /\ th' = [th EXCEPT ![t].pc = IF Len(th[t].h) = 0 THEN "Add_n" ELSE "Add_Or",
                        ![t].i = 1]
    /\ UNCHANGED <<m, keys, bits, n, live, calls, added, limit, gh, copyOf, tracing, inputs, ins>>

Add_Or(t) ==
    /\ th[t].pc = "Add_Or"
    /\ LET f == th[t].f
           i == th[t].h[th[t].i] % m[f]
       IN  bits' = [bits EXCEPT ![f][wordIndex(i)] = Or(@, bitMask(i))]
    /\ th' = [th EXCEPT ![t].pc = IF th[t].i = Len(th[t].h) THEN "Add_n" ELSE "Add_Or",
                        ![t].i = @ + 1]
    /\ UNCHANGED <<m, keys, n, lock, live, calls, added, limit, copyOf, tracing, inputs, ins>>
    /\ gh' = Observe(gh, bits', n)

Add_n(t) ==
    /\ th[t].pc = "Add_n"
    /\ n' = [n EXCEPT ![th[t].f] = nAdd(@, 1)]
    /\ th' = [th EXCEPT ![t].pc = "Add_RUnlock"]
    /\ UNCHANGED <<m, keys, bits, lock, live, calls, added, limit, copyOf, tracing, inputs, ins>>
    /\ gh' = Observe(gh, bits, n')

Add_RUnlock(t) ==
    /\ th[t].pc = "Add_RUnlock"
    /\ lock' = RUnlock(t, th[t].f)
    /\ th' = [th EXCEPT ![t].pc = "ret"]
    /\ added' = [added EXCEPT ![th[t].f] = @ \cup {th[t].v}]
    /\ ins' = [ins EXCEPT ![th[t].f].done = @ + 1]
    /\ UNCHANGED <<m, keys, bits, n, live, calls, limit, gh, copyOf, tracing, inputs>>

\* ------------------------------------------------------------- AddC
CallAddC(t, f, v) ==
    /\ MayCall(t) /\ f \in live /\ v \in inputs
    /\ th' = [th EXCEPT ![t] = [Start("AddC", f, NoFilter, "AddC_RLock")
                                  EXCEPT !.v = v, !.h = hash(keys[f], v)]]
    /\ calls' = calls + 1
    /\ gh' = [gh EXCEPT ![t] = StartGhost]
    /\ UNCHANGED <<m, keys, bits, n, lock, live, added, limit, copyOf, tracing, inputs, ins>>

AddC_RLock(t) ==
    /\ th[t].pc = "AddC_RLock"
    /\ canRLock(th[t].f)
    /\ lock' = RLock(t, th[t].f)
    /\ th' = [th EXCEPT ![t].pc = "AddC_RUnlock"]
    /\ UNCHANGED <<m, keys, bits, n, live, calls, added, limit, gh, copyOf, tracing, inputs, ins>>

\* f.lock.RUnlock() is called at once (it is not deferred); r := uint64(1)
AddC_RUnlock(t) ==
    /\ th[t].pc = "AddC_RUnlock"
    /\ lock' = RUnlock(t, th[t].f)
    /\ th' = [th EXCEPT ![t].pc = IF Len(th[t].h) = 0 THEN "AddC_n" ELSE "AddC_Load",
                        ![t].i = 1, ![t].r = 1]
    /\ UNCHANGED <<m, keys, bits, n, live, calls, added, limit, gh, copyOf, tracing, inputs, ins>>

AddC_Load(t) ==
    /\ th[t].pc = "AddC_Load"
    /\ LET f == th[t].f
           i == th[t].h[th[t].i] % m[f]
       IN  th' = [th EXCEPT ![t].pc = "AddC_Or",
                            ![t].r = and1(@, getBit(bits[f][wordIndex(i)], i))]
    /\ UNCHANGED <<m, keys, bits, n, lock, live, calls, added, limit, gh, copyOf, tracing, inputs, ins>>

AddC_Or(t) ==
    /\ th[t].pc = "AddC_Or"
    /\ LET f == th[t].f
           i == th[t].h[th[t].i] % m[f]
       IN  bits' = [bits EXCEPT ![f][wordIndex(i)] = Or(@, bitMask(i))]
    /\ th' = [th EXCEPT ![t].pc = IF th[t].i = Len(th[t].h) THEN "AddC_n" ELSE "AddC_Load",
                        ![t].i = @ + 1]
    /\ UNCHANGED <<m, keys, n, lock, live, calls, added, limit, copyOf, tracing, inputs, ins>>
    /\ gh' = Observe(gh, bits', n)

AddC_n(t) ==
    /\ th[t].pc = "AddC_n"
    /\ n' = [n EXCEPT ![th[t].f] = nAdd(@, 1)]
    /\ th' = [th EXCEPT ![t].pc = "ret", ![t].ok = uint64ToBool(th[t].r)]
    /\ added' = [added EXCEPT ![th[t].f] = @ \cup {th[t].v}]
    /\ ins' = [ins EXCEPT ![th[t].f].done = @ + 1]
    /\ UNCHANGED <<m, keys, bits, lock, live, calls, limit, copyOf, tracing, inputs>>
    /\ gh' = Observe(gh, bits, n')

\* --------------------------------------------------------- Contains
CallContains(t, f, v) ==
    /\ MayCall(t) /\ f \in live /\ v \in inputs
    /\ th' = [th EXCEPT ![t] = [Start("Contains", f, NoFilter, "Contains_RLock")
                                  EXCEPT !.v = v, !.h = hash(keys[f], v)]]
    /\ calls' = calls + 1
    /\ gh' = [gh EXCEPT ![t] = [StartGhost EXCEPT !.must = (v \in added[f])]]
    /\ UNCHANGED <<m, keys, bits, n, lock, live, added, limit, copyOf, tracing, inputs, ins>>

Contains_RLock(t) ==
    /\ th[t].pc = "Contains_RLock"
    /\ canRLock(th[t].f)
    /\ lock' = RLock(t, th[t].f)
    /\ th' = [th EXCEPT ![t].pc = IF Len(th[t].h) = 0 THEN "Contains_RUnlock"
                                  ELSE "Contains_Load",
                        ![t].i = 1, ![t].r = 1]
    /\ UNCHANGED <<m, keys, bits, n, live, calls, added, limit, gh, copyOf, tracing, inputs, ins>>

Contains_Load(t) ==
    /\ th[t].pc = "Contains_Load"
    /\ LET f == th[t].f
           i == th[t].h[th[t].i] % m[f]
       IN  th' = [th EXCEPT ![t].pc = IF th[t].i = Len(th[t].h) THEN "Contains_RUnlock"
                                      ELSE "Contains_Load",
                            ![t].i = @ + 1,
                            ![t].r = and1(@, getBit(bits[f][wordIndex(i)], i))]
    /\ UNCHANGED <<m, keys, bits, n, lock, live, calls, added, limit, gh, copyOf, tracing, inputs, ins>>

Contains_RUnlock(t) ==
    /\ th[t].pc = "Contains_RUnlock"
    /\ lock' = RUnlock(t, th[t].f)
    /\ th' = [th EXCEPT ![t].pc = "ret", ![t].ok = uint64ToBool(th[t].r)]
    /\ UNCHANGED <<m, keys, bits, n, live, calls, added, limit, gh, copyOf, tracing, inputs, ins>>

\* The caller takes the result; a filter returned without error becomes
\* known to the callers.
Return(t) ==
    /\ th[t].pc = "ret"
    /\ live' = IF th[t].out # NoFilter /\ th[t].err = Nil
               THEN live \cup {th[t].out} ELSE live
    /\ th' = [th EXCEPT ![t] = Idle]
    /\ UNCHANGED <<m, keys, bits, n, lock, calls, added, limit, copyOf, tracing, inputs, ins>>
    /\ gh' = [gh EXCEPT ![t] = NoGhost]

\* ------------------------------------------------------------- Copy
len(a) == Cardinality(DOMAIN a)
min(a, b) == IF a < b THEN a ELSE b

\* setBits that stops one word early
setBitsShort(fb, b) ==
    [i \in DOMAIN fb |-> IF i < min(len(b), len(fb)) - 1 THEN b[i] ELSE fb[i]]
\* f.setBits(b): the new f.bits
setBits(fb, b) ==
    [i \in DOMAIN fb |-> IF i < min(len(b), len(fb)) THEN b[i] ELSE fb[i]]

\* f.NewCompatible(): a zeroed filter with f's m and keys in slot x
NewCompatible(f, x) ==
    /\ m' = [m EXCEPT ![x] = m[f]]
    /\ keys' = [keys EXCEPT ![x] = keys[f]]
    /\ bits' = [bits EXCEPT ![x] = ZeroBits(m[f])]
    /\ n' = [n EXCEPT ![x] = 0]

MayCreate == Cardinality(Created) + Cardinality(Creating \ { t \in Threads : th[t].out # NoFilter }) < MaxNew

\* out, err := f.NewCompatible() precedes the Lock and touches nothing shared;
\* for a constructed filter it returns no error.
CallCopy(t, f) ==
    /\ MayCall(t) /\ f \in live
    /\ MayCreate
    /\ NewCompatible(f, FreeSlot)
    /\ th' = [th EXCEPT ![t] = [Start("Copy", f, NoFilter, "Copy_Lock")
                                  EXCEPT !.out = FreeSlot]]
    /\ calls' = calls + 1
    /\ gh' = [gh EXCEPT ![t] = StartGhost]
    /\ UNCHANGED <<lock, live, added, limit, tracing, inputs, ins>>
    /\ copyOf' = [copyOf EXCEPT ![FreeSlot] = f]

\* Lock: the writer announces itself; RLock calls that arrive later wait
Copy_Lock(t) ==
    /\ th[t].pc = "Copy_Lock"
    /\ lock[th[t].f].writer = NoWriter
    /\ lock' = [lock EXCEPT ![th[t].f].writer = t]
    /\ th' = [th EXCEPT ![t].pc = "Copy_LockWait"]
    /\ UNCHANGED <<m, keys, bits, n, live, calls, added, limit, gh, copyOf, tracing, inputs, ins>>

\* Lock returns when the readers that held the guard have left
Copy_LockWait(t) ==
    /\ th[t].pc = "Copy_LockWait"
    /\ Readers(th[t].f) = 0
    /\ lock' = [lock EXCEPT ![th[t].f].held = TRUE]
    /\ th' = [th EXCEPT ![t].pc = IF len(bits[th[t].f]) = 0 THEN "Copy_n" ELSE "Copy_getBits",
                        ![t].i = 0,
                        ![t].buf = ZeroBits(m[th[t].f])]
    /\ UNCHANGED <<m, keys, bits, n, live, calls, added, limit, copyOf, tracing, inputs, ins>>
    /\ gh' = [gh EXCEPT ![t].seen = IF tracing
                                     THEN {[bits |-> bits[th[t].f], n |-> n[th[t].f]]}
                                     ELSE @]

\* getBits, for i, v := range f.bits: the plain read of f.bits[i] begins
Copy_getBits(t) ==
    /\ th[t].pc = "Copy_getBits"
    /\ th' = [th EXCEPT ![t].pc = "Copy_getBitsRest",
                        ![t].word = bits[th[t].f][th[t].i]]
    /\ UNCHANGED <<m, keys, bits, n, lock, live, calls, added, limit, gh, copyOf, tracing, inputs, ins>>

\* getBits: the plain read of f.bits[i] ends; out[i] = v.Load()
Copy_getBitsRest(t) ==
    /\ th[t].pc = "Copy_getBitsRest"
    /\ LET f == th[t].f
           i == th[t].i
       IN  \E H \in {LoHalf, HiHalf} :
             th' = [th EXCEPT ![t].pc = IF i + 1 = len(bits[f]) THEN "Copy_n" ELSE "Copy_getBits",
                              ![t].i = i + 1,
                              ![t].word = {},
                              ![t].buf = [@ EXCEPT ![i] = plainRead(th[t].word, bits[f][i], H)]]
    /\ UNCHANGED <<m, keys, bits, n, lock, live, calls, added, limit, gh, copyOf, tracing, inputs, ins>>

\* out.setBits(...); out.n.Store(f.n.Load())
Copy_n(t) ==
    /\ th[t].pc = "Copy_n"
    /\ bits' = [bits EXCEPT ![th[t].out] = setBits(@, th[t].buf)]
    /\ n' = [n EXCEPT ![th[t].out] = n[th[t].f]]
    /\ th' = [th EXCEPT ![t].pc = "Copy_Unlock"]
    /\ ins' = [ins EXCEPT ![th[t].out].base = n[th[t].f]]
    /\ UNCHANGED <<m, keys, lock, live, calls, added, limit, gh, copyOf, tracing, inputs>>

Copy_Unlock(t) ==
    /\ th[t].pc = "Copy_Unlock"
    /\ lock' = [lock EXCEPT ![th[t].f].writer = NoWriter, ![th[t].f].held = FALSE]
    /\ th' = [th EXCEPT ![t].pc = "ret"]
    /\ UNCHANGED <<m, keys, bits, n, live, calls, added, limit, gh, copyOf, tracing, inputs, ins>>

\* ----------------------------------------------------- IsCompatible
CallIsCompatible(t, f, f2) ==
    /\ MayCall(t) /\ f \in live /\ f2 \in live
    /\ th' = [th EXCEPT ![t] = Start("IsCompatible", f, f2, "IC_RLock_f")]
    /\ calls' = calls + 1
    /\ gh' = [gh EXCEPT ![t] = StartGhost]
    /\ UNCHANGED <<m, keys, bits, n, lock, live, added, limit, copyOf, tracing, inputs, ins>>

IC_RLock_f(t) ==
    /\ th[t].pc = "IC_RLock_f"
    /\ canRLock(th[t].f)
    /\ lock' = RLock(t, th[t].f)
    /\ th' = [th EXCEPT ![t].pc = "IC_RLock_f2"]
    /\ UNCHANGED <<m, keys, bits, n, live, calls, added, limit, gh, copyOf, tracing, inputs, ins>>

\* f2.lock.RLock(); the result of f.isCompatible(f2) is computed
IC_RLock_f2(t) ==
    /\ th[t].pc = "IC_RLock_f2"
    /\ canRLock(th[t].f2)
    /\ lock' = RLock(t, th[t].f2)
    /\ th' = [th EXCEPT ![t].pc = "IC_RUnlock_f2",
                        ![t].ok = isCompatible(th[t].f, th[t].f2)]
    /\ UNCHANGED <<m, keys, bits, n, live, calls, added, limit, gh, copyOf, tracing, inputs, ins>>

IC_RUnlock_f2(t) ==
    /\ th[t].pc = "IC_RUnlock_f2"
    /\ lock' = RUnlock(t, th[t].f2)
    /\ th' = [th EXCEPT ![t].pc = "IC_RUnlock_f"]
    /\ UNCHANGED <<m, keys, bits, n, live, calls, added, limit, gh, copyOf, tracing, inputs, ins>>

IC_RUnlock_f(t) ==
    /\ th[t].pc = "IC_RUnlock_f"
    /\ lock' = RUnlock(t, th[t].f)
    /\ th' = [th EXCEPT ![t].pc = "ret"]
    /\ UNCHANGED <<m, keys, bits, n, live, calls, added, limit, gh, copyOf, tracing, inputs, ins>>

\* ------------------------------------------------- verifyCompatible
\* Called by Union and UnionInPlace while they hold both guards for reading.
VC_RLock_f(t) ==
    /\ th[t].pc = "VC_RLock_f"
    /\ canRLock(th[t].f)
    /\ lock' = RLock(t, th[t].f)
    /\ th' = [th EXCEPT ![t].pc = "VC_RLock_f2"]
    /\ UNCHANGED <<m, keys, bits, n, live, calls, added, limit, gh, copyOf, tracing, inputs, ins>>

\* f2.lock.RLock(); the body runs to its return or to its panic
VC_RLock_f2(t) ==
    /\ th[t].pc = "VC_RLock_f2"
    /\ canRLock(th[t].f2)
    /\ lock' = RLock(t, th[t].f2)
    /\ th' = [th EXCEPT ![t].pc = "VC_RUnlock_f2",
                        ![t].err = verifyCompatibleResult(th[t].f, th[t].f2)]
    /\ UNCHANGED <<m, keys, bits, n, live, calls, added, limit, gh, copyOf, tracing, inputs, ins>>

VC_RUnlock_f2(t) ==
    /\ th[t].pc = "VC_RUnlock_f2"
    /\ lock' = RUnlock(t, th[t].f2)
    /\ th' = [th EXCEPT ![t].pc = "VC_RUnlock_f"]
    /\ UNCHANGED <<m, keys, bits, n, live, calls, added, limit, gh, copyOf, tracing, inputs, ins>>

\* verifyCompatible returns to its caller: on an error or a panic the caller
\* runs its deferred RUnlocks, otherwise it goes on
VC_RUnlock_f(t) ==
    /\ th[t].pc = "VC_RUnlock_f"
    /\ lock' = RUnlock(t, th[t].f)
    /\ th' = [th EXCEPT ![t].pc =
                 IF th[t].op = "UnionInPlace"
                 THEN (IF th[t].err # Nil THEN "UIP_RUnlock_f2"
                       ELSE IF len(bits[th[t].f2]) = 0 THEN "UIP_RUnlock_f2"
                       ELSE "UIP_Load")
                 ELSE (IF th[t].err # Nil THEN "Union_RUnlock_f2" ELSE "Union_New"),
                        ![t].i = 0]
    /\ UNCHANGED <<m, keys, bits, n, live, calls, added, limit, gh, copyOf, tracing, inputs, ins>>

\* ----------------------------------------------------- UnionInPlace
CallUnionInPlace(t, f, f2) ==
    /\ MayCall(t) /\ f \in live /\ f2 \in live
    /\ th' = [th EXCEPT ![t] = Start("UnionInPlace", f, f2, "UIP_RLock_f")]
    /\ calls' = calls + 1
    /\ gh' = [gh EXCEPT ![t] = StartGhost]
    /\ UNCHANGED <<m, keys, bits, n, lock, live, added, limit, copyOf, tracing, inputs, ins>>

UIP_RLock_f(t) ==
    /\ th[t].pc = "UIP_RLock_f"
    /\ canRLock(th[t].f)
    /\ lock' = RLock(t, th[t].f)
    /\ th' = [th EXCEPT ![t].pc = "UIP_RLock_f2"]
    /\ UNCHANGED <<m, keys, bits, n, live, calls, added, limit, gh, copyOf, tracing, inputs, ins>>

UIP_RLock_f2(t) ==
    /\ th[t].pc = "UIP_RLock_f2"
    /\ canRLock(th[t].f2)
    /\ lock' = RLock(t, th[t].f2)
    /\ th' = [th EXCEPT ![t].pc = "VC_RLock_f"]
    /\ UNCHANGED <<m, keys, bits, n, live, calls, added, limit, gh, copyOf, tracing, inputs, ins>>

\* for i, word := range f2.bits: the range copies f2.bits[i] into word with
\* a plain read, which begins here; word.Load() later reads the private copy.
UIP_Load(t) ==
    /\ th[t].pc = "UIP_Load"
    /\ th' = [th EXCEPT ![t].pc = "UIP_LoadRest",
                        ![t].word = bits[th[t].f2][th[t].i]]
    /\ UNCHANGED <<m, keys, bits, n, lock, live, calls, added, limit, gh, copyOf, tracing, inputs, ins>>

\* the plain read of f2.bits[i] ends
UIP_LoadRest(t) ==
    /\ th[t].pc = "UIP_LoadRest"
    /\ \E H \in {LoHalf, HiHalf} :
         LET w == plainRead(th[t].word, bits[th[t].f2][th[t].i], H)
         IN  /\ th' = [th EXCEPT ![t].pc = "UIP_Or", ![t].word = w]
             /\ gh' = [gh EXCEPT ![t].rd2 = IF tracing THEN (th[t].i :> w) @@ @
                                             ELSE @]
    /\ UNCHANGED <<m, keys, bits, n, lock, live, calls, added, limit, copyOf, tracing, inputs, ins>>

\* f.bits[i].Or(word.Load())
UIP_Or(t) ==
    /\ th[t].pc = "UIP_Or"
    /\ LET f == th[t].f
           i == th[t].i
       IN  /\ bits' = [bits EXCEPT ![f][i] = Or(@, th[t].word)]
           /\ th' = [th EXCEPT ![t].pc = IF i + 1 = len(bits[th[t].f2])
                                         THEN "UIP_RUnlock_f2" ELSE "UIP_Load",
                               ![t].i = i + 1]
    /\ UNCHANGED <<m, keys, n, lock, live, calls, added, limit, copyOf, tracing, inputs, ins>>
    /\ gh' = Observe([gh EXCEPT ![t].before = IF tracing /\ th[t].i = 0
                                              THEN bits[th[t].f] ELSE @],
                      bits', n)

UIP_RUnlock_f2(t) ==
    /\ th[t].pc = "UIP_RUnlock_f2"
    /\ lock' = RUnlock(t, th[t].f2)
    /\ th' = [th EXCEPT ![t].pc = "UIP_RUnlock_f"]
    /\ UNCHANGED <<m, keys, bits, n, live, calls, added, limit, gh, copyOf, tracing, inputs, ins>>

UIP_RUnlock_f(t) ==
    /\ th[t].pc = "UIP_RUnlock_f"
    /\ lock' = RUnlock(t, th[t].f)
    /\ th' = [th EXCEPT ![t].pc = "ret"]
    /\ UNCHANGED <<m, keys, bits, n, live, calls, added, limit, gh, copyOf, tracing, inputs, ins>>

\* ------------------------------------------------------------ Union
CallUnion(t, f, f2) ==
    /\ MayCall(t) /\ f \in live /\ f2 \in live
    /\ MayCreate
    /\ th' = [th EXCEPT ![t] = Start("Union", f, f2, "Union_RLock_f")]
    /\ calls' = calls + 1
    /\ gh' = [gh EXCEPT ![t] = StartGhost]
    /\ UNCHANGED <<m, keys, bits, n, lock, live, added, limit, copyOf, tracing, inputs, ins>>

Union_RLock_f(t) ==
    /\ th[t].pc = "Union_RLock_f"
    /\ canRLock(th[t].f)
    /\ lock' = RLock(t, th[t].f)
    /\ th' = [th EXCEPT ![t].pc = "Union_RLock_f2"]
    /\ UNCHANGED <<m, keys, bits, n, live, calls, added, limit, gh, copyOf, tracing, inputs, ins>>

Union_RLock_f2(t) ==
    /\ th[t].pc = "Union_RLock_f2"
    /\ canRLock(th[t].f2)
    /\ lock' = RLock(t, th[t].f2)
    /\ th' = [th EXCEPT ![t].pc = "VC_RLock_f"]
    /\ UNCHANGED <<m, keys, bits, n, live, calls, added, limit, gh, copyOf, tracing, inputs, ins>>

\* out, err = f.NewCompatible()
Union_New(t) ==
    /\ th[t].pc = "Union_New"
    /\ NewCompatible(th[t].f, FreeSlot)
    /\ th' = [th EXCEPT ![t].pc = IF len(bits[th[t].f2]) = 0 THEN "Union_RUnlock_f2"
                                  ELSE "Union_Load_f2",
                        ![t].out = FreeSlot,
                        ![t].i = 0]
    /\ UNCHANGED <<lock, live, calls, added, limit, gh, copyOf, tracing, inputs, ins>>

\* for i, word := range f2.bits: the plain read of f2.bits[i] begins
Union_Load_f2(t) ==
    /\ th[t].pc = "Union_Load_f2"
    /\ th' = [th EXCEPT ![t].pc = "Union_LoadRest_f2",
                        ![t].word = bits[th[t].f2][th[t].i]]
    /\ UNCHANGED <<m, keys, bits, n, lock, live, calls, added, limit, gh, copyOf, tracing, inputs, ins>>

\* the plain read of f2.bits[i] ends
Union_LoadRest_f2(t) ==
    /\ th[t].pc = "Union_LoadRest_f2"
    /\ \E H \in {LoHalf, HiHalf} :
         LET w == plainRead(th[t].word, bits[th[t].f2][th[t].i], H)
         IN  /\ th' = [th EXCEPT ![t].pc = "Union_Load_f", ![t].word = w]
             /\ gh' = [gh EXCEPT ![t].rd2 = IF tracing THEN (th[t].i :> w) @@ @
                                             ELSE @]
    /\ UNCHANGED <<m, keys, bits, n, lock, live, calls, added, limit, copyOf, tracing, inputs, ins>>

\* the left operand alone
wordOrLeft(a, b) == a
\* a | b of two words
wordOr(a, b) == a \cup b

\* out.bits[i].Store(f.bits[i].Load() | word.Load())
Union_Load_f(t) ==
    /\ th[t].pc = "Union_Load_f"
    /\ LET f == th[t].f
           i == th[t].i
       IN  /\ bits' = [bits EXCEPT ![th[t].out][i] = wordOr(bits[f][i], th[t].word)]
           /\ th' = [th EXCEPT ![t].pc = IF i + 1 = len(bits[th[t].f2])
                                         THEN "Union_RUnlock_f2" ELSE "Union_Load_f2",
                               ![t].i = i + 1]
    /\ UNCHANGED <<m, keys, n, lock, live, calls, added, limit, copyOf, tracing, inputs, ins>>
    /\ gh' = [gh EXCEPT ![t].rd = IF tracing
                                   THEN (th[t].i :> bits[th[t].f][th[t].i]) @@ @
                                   ELSE @]

Union_RUnlock_f2(t) ==
    /\ th[t].pc = "Union_RUnlock_f2"
    /\ lock' = RUnlock(t, th[t].f2)
    /\ th' = [th EXCEPT ![t].pc = "Union_RUnlock_f"]
    /\ UNCHANGED <<m, keys, bits, n, live, calls, added, limit, gh, copyOf, tracing, inputs, ins>>

Union_RUnlock_f(t) ==
    /\ th[t].pc = "Union_RUnlock_f"
    /\ lock' = RUnlock(t, th[t].f)
    /\ th' = [th EXCEPT ![t].pc = "ret"]
    /\ UNCHANGED <<m, keys, bits, n, live, calls, added, limit, gh, copyOf, tracing, inputs, ins>>

\* ---------------------------------------------------- specification
Step(t) ==
    \/ \E f \in FilterIds, v \in Hashes \cup ScenarioHashes : CallAdd(t, f, v)
    \/ Add_RLock(t) \/ Add_Or(t) \/ Add_n(t) \/ Add_RUnlock(t)
    \/ \E f \in FilterIds, v \in Hashes \cup ScenarioHashes : CallAddC(t, f, v)
    \/ AddC_RLock(t) \/ AddC_RUnlock(t) \/ AddC_Load(t) \/ AddC_Or(t) \/ AddC_n(t)
    \/ \E f \in FilterIds, v \in Hashes \cup ScenarioHashes : CallContains(t, f, v)
    \/ Contains_RLock(t) \/ Contains_Load(t) \/ Contains_RUnlock(t)
    \/ \E f \in FilterIds : CallCopy(t, f)
    \/ Copy_Lock(t) \/ Copy_LockWait(t) \/ Copy_getBits(t) \/ Copy_getBitsRest(t)
    \/ Copy_n(t) \/ Copy_Unlock(t)
    \/ \E f, f2 \in FilterIds : CallIsCompatible(t, f, f2)
    \/ IC_RLock_f(t) \/ IC_RLock_f2(t) \/ IC_RUnlock_f2(t) \/ IC_RUnlock_f(t)
    \/ VC_RLock_f(t) \/ VC_RLock_f2(t) \/ VC_RUnlock_f2(t) \/ VC_RUnlock_f(t)
    \/ \E f, f2 \in FilterIds : CallUnionInPlace(t, f, f2)
    \/ UIP_RLock_f(t) \/ UIP_RLock_f2(t) \/ UIP_Load(t) \/ UIP_LoadRest(t) \/ UIP_Or(t)
    \/ UIP_RUnlock_f2(t) \/ UIP_RUnlock_f(t)
    \/ \E f, f2 \in FilterIds : CallUnion(t, f, f2)
    \/ Union_RLock_f(t) \/ Union_RLock_f2(t) \/ Union_New(t)
    \/ Union_Load_f2(t) \/ Union_LoadRest_f2(t) \/ Union_Load_f(t)
    \/ Union_RUnlock_f2(t) \/ Union_RUnlock_f(t)
    \/ Return(t)

Next == \E t \in Threads : Step(t)
NextSeq == \E t \in SeqThreads : Step(t)

\* the steps of AddC alone
StepAddC(t) ==
    \/ \E f \in FilterIds, v \in Hashes : CallAddC(t, f, v)
    \/ AddC_RLock(t) \/ AddC_RUnlock(t) \/ AddC_Load(t) \/ AddC_Or(t) \/ AddC_n(t)
    \/ Return(t)
NextAddC == \E t \in Threads : StepAddC(t)

\* the steps of the insertions and of the unions
StepMerge(t) ==
    \/ \E f \in FilterIds, v \in Hashes : CallAdd(t, f, v)
    \/ Add_RLock(t) \/ Add_Or(t) \/ Add_n(t) \/ Add_RUnlock(t)
    \/ \E f \in FilterIds, v \in Hashes : CallAddC(t, f, v)
    \/ AddC_RLock(t) \/ AddC_RUnlock(t) \/ AddC_Load(t) \/ AddC_Or(t) \/ AddC_n(t)
    \/ VC_RLock_f(t) \/ VC_RLock_f2(t) \/ VC_RUnlock_f2(t) \/ VC_RUnlock_f(t)
    \/ \E f, f2 \in FilterIds : CallUnionInPlace(t, f, f2)
    \/ UIP_RLock_f(t) \/ UIP_RLock_f2(t) \/ UIP_Load(t) \/ UIP_LoadRest(t) \/ UIP_Or(t)
    \/ UIP_RUnlock_f2(t) \/ UIP_RUnlock_f(t)
    \/ \E f, f2 \in FilterIds : CallUnion(t, f, f2)
    \/ Union_RLock_f(t) \/ Union_RLock_f2(t) \/ Union_New(t)
    \/ Union_Load_f2(t) \/ Union_LoadRest_f2(t) \/ Union_Load_f(t)
    \/ Union_RUnlock_f2(t) \/ Union_RUnlock_f(t)
    \/ Return(t)
NextMerge == \E t \in Threads : StepMerge(t)

\* Any number of threads call the methods concurrently.
Spec == Init /\ [][Next]_vars
\* One thread calls the methods: no operation runs concurrently with another.
SeqSpec == InitSeq /\ [][NextSeq]_vars
\* One thread calls the methods on the two-word filter and on the one-word
\* filter with m = 64 and keys <<1>>.
ScenarioSpec == InitScenario /\ [][NextSeq]_vars
\* Two concurrent calls on filters that already hold items, with the history
\* of what each call read.
RaceSpec == InitRace /\ [][Next]_vars
\* Concurrent AddC calls and nothing else.
AddCSpec == InitRace /\ [][NextAddC]_vars
\* Concurrent Add, AddC, Union and UnionInPlace calls on two compatible
\* filters, the second of which holds an item.
MergeSpec == InitMerge /\ [][NextMerge]_vars

\* ------------------------------------------------------ properties
AtRet(t, op) == th[t].pc = "ret" /\ th[t].op = op
Active(t) == th[t].pc \notin {"idle", "ret"}
\* f and f2 have the same size and the same key sequence
Compatible(f, f2) == m[f] = m[f2] /\ keys[f] = keys[f2]
\* the call of t has left the bits and n of filter x as they were at its start
Untouched(t, x) == bits[x] = gh[t].pre.bits[x] /\ n[x] = gh[t].pre.n[x]
\* bit index of hash v under key k of filter f
Target(f, v, k) == xor64(v, keys[f][k]) % m[f]
\* whether bit index b is set in the vector bv
IsSet(bv, b) == (b % 64) \in bv[b \div 64]

\* C1: once Add(h) or AddC(h) on f has returned, every Contains(h) on f that
\* starts afterwards returns true, whatever the other threads do meanwhile.
C1_NoFalseNegatives ==
    \A t \in Threads : AtRet(t, "Contains") /\ gh[t].must => th[t].ok

\* A Contains of an added hash has returned while another thread is in the
\* middle of a UnionInPlace into the same filter.
C1_Witness ==
    \E t, u \in Threads :
        /\ AtRet(t, "Contains") /\ gh[t].must /\ th[t].ok
        /\ th[u].op = "UnionInPlace" /\ th[u].pc = "UIP_Or" /\ th[u].i = 1
        /\ th[u].f = th[t].f

\* C2: Union of compatible filters, run alone, returns a new filter whose
\* every word is the OR of the operands' words, and changes neither operand.
C2_UnionIsBitwiseOr ==
    \A t \in Threads :
        AtRet(t, "Union") /\ Compatible(th[t].f, th[t].f2) =>
            /\ th[t].err = Nil
            /\ th[t].out \notin {NoFilter, th[t].f, th[t].f2}
            /\ DOMAIN bits[th[t].out] = DOMAIN gh[t].pre.bits[th[t].f]
            /\ \A i \in DOMAIN bits[th[t].out] :
                   bits[th[t].out][i] =
                       gh[t].pre.bits[th[t].f][i] \cup gh[t].pre.bits[th[t].f2][i]
            /\ Untouched(t, th[t].f)
            /\ Untouched(t, th[t].f2)

\* A Union of two filters holding different items has returned.
C2_Witness ==
    \E t \in Threads :
        /\ AtRet(t, "Union") /\ th[t].err = Nil
        /\ th[t].f # th[t].f2
        /\ \E i, j \in DOMAIN bits[th[t].f] :
               /\ bits[th[t].f][i] \ bits[th[t].f2][i] # {}
               /\ bits[th[t].f2][j] \ bits[th[t].f][j] # {}

\* C3: UnionInPlace of compatible filters, run alone, changes neither f2 nor
\* f.n, and makes every word of f the OR of its prior word and f2's word.
C3_UnionInPlaceFrame ==
    \A t \in Threads :
        AtRet(t, "UnionInPlace") /\ Compatible(th[t].f, th[t].f2) =>
            /\ th[t].err = Nil
            /\ Untouched(t, th[t].f2)
            /\ n[th[t].f] = gh[t].pre.n[th[t].f]
            /\ n[th[t].f2] = gh[t].pre.n[th[t].f2]
            /\ DOMAIN bits[th[t].f] = DOMAIN gh[t].pre.bits[th[t].f]
            /\ \A i \in DOMAIN bits[th[t].f] :
                   bits[th[t].f][i] =
                       gh[t].pre.bits[th[t].f][i] \cup gh[t].pre.bits[th[t].f2][i]

\* A UnionInPlace has returned that added bits to f, which held bits f2 lacks.
C3_Witness ==
    \E t \in Threads :
        /\ AtRet(t, "UnionInPlace") /\ th[t].err = Nil
        /\ th[t].f # th[t].f2
        /\ \E i \in DOMAIN bits[th[t].f] :
               gh[t].pre.bits[th[t].f2][i] \ gh[t].pre.bits[th[t].f][i] # {}
        /\ \E i \in DOMAIN bits[th[t].f] :
               gh[t].pre.bits[th[t].f][i] \ gh[t].pre.bits[th[t].f2][i] # {}
        /\ n[th[t].f] > 0

\* C4: Union and UnionInPlace of incompatible filters return an Incompatible
\* error as a value (they do not panic) and change neither filter.
C4_IncompatibleIsAnError ==
    \A t \in Threads :
        /\ th[t].pc = "ret" /\ th[t].op \in {"Union", "UnionInPlace"}
        /\ ~Compatible(th[t].f, th[t].f2)
        => /\ th[t].err.kind = "Incompatible"
           /\ Untouched(t, th[t].f)
           /\ Untouched(t, th[t].f2)

\* C5: IsCompatible returns true exactly when the sizes are equal, the key
\* counts are equal and the keys are equal position by position.
C5_IsCompatibleIff ==
    \A t \in Threads :
        AtRet(t, "IsCompatible") =>
            /\ th[t].ok <=>
                  /\ m[th[t].f] = m[th[t].f2]
                  /\ Len(keys[th[t].f]) = Len(keys[th[t].f2])
                  /\ \A k \in 1..Len(keys[th[t].f]) :
                        keys[th[t].f][k] = keys[th[t].f2][k]
            /\ th[t].f = th[t].f2 => th[t].ok

\* IsCompatible has returned false for two filters of the same size and key
\* count whose keys differ in one position.
C5_Witness ==
    \E t \in Threads :
        /\ AtRet(t, "IsCompatible") /\ ~th[t].ok
        /\ m[th[t].f] = m[th[t].f2]
        /\ Len(keys[th[t].f]) = Len(keys[th[t].f2])
        /\ keys[th[t].f][1] = keys[th[t].f2][1]

\* C6: AddC, run alone, returns true exactly when every target bit was set
\* before the call (false on an empty filter), and afterwards every target
\* bit is set and n has grown by 1.
C6_AddCReportsPriorPresence ==
    \A t \in Threads :
        AtRet(t, "AddC") =>
            LET f == th[t].f
                wasSet == \A k \in 1..Len(keys[f]) :
                             IsSet(gh[t].pre.bits[f], Target(f, th[t].v, k))
            IN  /\ th[t].ok <=> wasSet
                /\ (\A i \in DOMAIN gh[t].pre.bits[f] : gh[t].pre.bits[f][i] = {})
                       => ~th[t].ok
                /\ \A k \in 1..Len(keys[f]) : IsSet(bits[f], Target(f, th[t].v, k))
                /\ n[f] = gh[t].pre.n[f] + 1

\* AddC has returned false on an empty filter whose two keys map the hash to
\* the same bit.
C6_Witness ==
    \E t \in Threads :
        /\ AtRet(t, "AddC") /\ ~th[t].ok
        /\ Len(keys[th[t].f]) = 2
        /\ Target(th[t].f, th[t].v, 1) = Target(th[t].f, th[t].v, 2)
        /\ gh[t].pre.n[th[t].f] = 0

\* C7: Copy, run alone, returns a filter with f's m, keys, bits and n; later
\* an Add, AddC or UnionInPlace on the copy leaves f's bits and n unchanged,
\* and one on f leaves the copy's unchanged.
C7_CopyIsIndependent ==
    \A t \in Threads :
        /\ AtRet(t, "Copy") =>
              /\ th[t].err = Nil
              /\ th[t].out \notin {NoFilter, th[t].f}
              /\ m[th[t].out] = m[th[t].f]
              /\ keys[th[t].out] = keys[th[t].f]
              /\ bits[th[t].out] = bits[th[t].f]
              /\ N(th[t].out) = N(th[t].f)
              /\ Untouched(t, th[t].f)
        /\ th[t].pc = "ret" /\ th[t].op \in {"Add", "AddC", "UnionInPlace"} =>
              \A x \in FilterIds :
                  x # th[t].f /\ (copyOf[x] = th[t].f \/ copyOf[th[t].f] = x)
                      => Untouched(t, x)

\* An Add on the copy of a filter that holds an item has returned.
C7_Witness ==
    \E t \in Threads :
        /\ AtRet(t, "Add")
        /\ copyOf[th[t].f] # NoFilter
        /\ n[copyOf[th[t].f]] > 0
        /\ bits[th[t].f] # bits[copyOf[th[t].f]]

\* An Add or AddC of thread a is between its first bit access and its
\* increment of n.
MidInsertion(a) ==
    \/ /\ th[a].op = "Add"
       /\ (th[a].pc = "Add_Or" /\ th[a].i > 1) \/ th[a].pc = "Add_n"
    \/ /\ th[a].op = "AddC"
       /\ \/ th[a].pc = "AddC_Or"
          \/ th[a].pc = "AddC_Load" /\ th[a].i > 1
          \/ th[a].pc = "AddC_n"

\* C8: while Copy reads f's bits and n no Add or AddC on f is between its
\* first bit access and its increment of n, and the bits and n stored in the
\* copy are the bits and n f had at one instant during the Copy.
C8_CopyIsConsistentSnapshot ==
    /\ \A c, a \in Threads :
          InCopyReads(c) /\ th[a].f = th[c].f => ~MidInsertion(a)
    /\ \A c \in Threads :
          AtRet(c, "Copy") =>
              [bits |-> bits[th[c].out], n |-> n[th[c].out]] \in gh[c].seen

\* The vectors the call of t has read from filter x
ReadVecs(t, x) ==
    { th[t].buf : y \in IF th[t].op = "Copy" /\ th[t].f = x THEN {x} ELSE {} }
    \cup { gh[t].rd : y \in IF th[t].op = "Union" /\ th[t].f = x THEN {x} ELSE {} }
    \cup { gh[t].rd2 : y \in IF th[t].op \in {"Union", "UnionInPlace"} /\ th[t].f2 = x
                             THEN {x} ELSE {} }

\* C9: when a UnionInPlace into f (two words or more) and a Union,
\* UnionInPlace or Copy that reads f are the only two calls and both have
\* returned, the vector the reader read from f is f's vector either before
\* the first word was merged or after the last one was.
C9_NoPartialMergeVisible ==
    \A u, t \in Threads :
        /\ u # t /\ calls = 2
        /\ AtRet(u, "UnionInPlace") /\ th[u].err = Nil
        /\ len(bits[th[u].f]) >= 2
        /\ th[t].pc = "ret" /\ th[t].err = Nil
        => \A vec \in ReadVecs(t, th[u].f) :
               vec = gh[u].before \/ vec = bits[th[u].f]

\* Thread u waits on a guard
Blocked(u) ==
    \/ /\ th[u].pc \in {"Add_RLock", "AddC_RLock", "Contains_RLock", "IC_RLock_f",
                        "VC_RLock_f", "UIP_RLock_f", "Union_RLock_f"}
       /\ ~canRLock(th[u].f)
    \/ /\ th[u].pc \in {"IC_RLock_f2", "VC_RLock_f2", "UIP_RLock_f2", "Union_RLock_f2"}
       /\ ~canRLock(th[u].f2)
    \/ th[u].pc = "Copy_Lock" /\ lock[th[u].f].writer # NoWriter
    \/ th[u].pc = "Copy_LockWait" /\ Readers(th[u].f) # 0

\* C10: no state has threads blocked forever on a guard: while a call is
\* running, some running call is not waiting on a guard.  (Only running calls
\* hold guards, so when all of them wait none is ever released.)
C10_NoThreadBlockedForever ==
    (\E t \in Threads : Active(t)) => \E u \in Threads : Active(u) /\ ~Blocked(u)

\* Thread t runs a Union or UnionInPlace, holds the guard of its receiver and
\* asks for the guard of its argument.
HoldsFirstAsksSecond(t) ==
    /\ th[t].pc \in {"UIP_RLock_f2", "Union_RLock_f2"}
    /\ th[t].f # th[t].f2

\* C11: the guards are taken in call-argument order and that deadlocks: when
\* one thread runs A.UnionInPlace(B) or A.Union(B) and the other
\* B.UnionInPlace(A) or B.Union(A), each holding the guard of its receiver and
\* asking for the guard of its argument, both are blocked, each waiting for
\* the guard the other one holds.
C11_OpposingUnionsDeadlock ==
    \A t, u \in Threads :
        /\ t # u
        /\ HoldsFirstAsksSecond(t) /\ HoldsFirstAsksSecond(u)
        /\ th[u].f = th[t].f2 /\ th[u].f2 = th[t].f
        => Blocked(t) /\ Blocked(u)

\* An Add or AddC on filter x has started and not returned
InsertionInProgress(x) ==
    \E t \in Threads : th[t].op \in {"Add", "AddC"} /\ th[t].f = x /\ Active(t)

\* C12: whenever no insertion on a filter is in progress, its N() is the n it
\* was created with (0 from NewCompatible and Union, the source's n from Copy)
\* plus the number of Add and AddC calls that have returned on it; n never
\* decreases; and no step of Contains, IsCompatible, Copy, Union or
\* UnionInPlace changes the n of a filter other than the one it is creating.
C12_NCountsInsertions ==
    /\ [](\A x \in FilterIds :
            m[x] # 0 /\ ~InsertionInProgress(x) => N(x) = ins[x].base + ins[x].done)
    /\ [][\A x \in FilterIds : m[x] # 0 => n'[x] >= n[x]]_vars
    /\ [][\A t \in Threads :
            /\ th'[t] # th[t]
            /\ th[t].op \in {"Contains", "IsCompatible", "Copy", "Union", "UnionInPlace"}
            => \A x \in FilterIds : m[x] # 0 /\ x # th[t].out => n'[x] = n[x]]_vars

\* The same hash has been added twice to a filter, whose N() is 2.
C12_Witness ==
    \E x \in FilterIds :
        /\ ~InsertionInProgress(x)
        /\ ins[x].done = 2 /\ Cardinality(added[x]) = 1
        /\ N(x) = 2

\* C13: verifyCompatible returns no error exactly when f and f2 are
\* compatible; otherwise it returns an Incompatible error with a size entry
\* iff the sizes differ, a key-count entry iff the key counts differ and a
\* keys entry iff the key sequences differ, and the message is composed of
\* exactly the entries of the dimensions that differ.
C13_DiagnosticNamesWhatDiffers ==
    \A t \in Threads :
        th[t].pc = "ret" /\ th[t].op \in {"Union", "UnionInPlace"} =>
            LET f == th[t].f
                f2 == th[t].f2
                e == th[t].err
                differing == Cardinality({ d \in {"size", "count", "keys"} :
                                 \/ d = "size" /\ m[f] # m[f2]
                                 \/ d = "count" /\ Len(keys[f]) # Len(keys[f2])
                                 \/ d = "keys" /\ keys[f] # keys[f2] })
            IN  /\ e = Nil <=> Compatible(f, f2)
                /\ ~Compatible(f, f2) =>
                      /\ e.kind = "Incompatible"
                      /\ IsEntry(e.s[1]) <=> m[f] # m[f2]
                      /\ IsEntry(e.s[2]) <=> Len(keys[f]) # Len(keys[f2])
                      /\ IsEntry(e.s[3]) <=> keys[f] # keys[f2]
                      /\ Len(Error(e).out) = differing

\* C18: in the Incompatible error of verifyCompatible the size entry, present
\* when the sizes differ, reports f.M() and f2.M(), and the key-count entry,
\* present when the key counts differ, reports f.K() and f2.K().
C18_EntriesReportTheirDimension ==
    \A t \in Threads :
        /\ th[t].pc = "ret" /\ th[t].op \in {"Union", "UnionInPlace"}
        /\ th[t].err.kind = "Incompatible"
        => LET f == th[t].f
               f2 == th[t].f2
               msg == Error(th[t].err).out
           IN  /\ m[f] # m[f2] =>
                     /\ th[t].err.s[1] = Sprintf("M=%d and M=%d", M(f), M(f2))
                     /\ msg[1] = Sprintf("M=%d and M=%d", M(f), M(f2))
               /\ Len(keys[f]) # Len(keys[f2]) =>
                     th[t].err.s[2] = Sprintf("K=%d and K=%d", K(f), K(f2))

\* e^(-x) for a fixed-point x between 0 and 1, by its power series
expNegSeries(x) ==
    LET t2 == (x * x) \div (2 * One)
        t3 == (t2 * x) \div (3 * One)
        t4 == (t3 * x) \div (4 * One)
        t5 == (t4 * x) \div (5 * One)
    IN  One - x + t2 - t3 + t4 - t5
\* (1 - e^(-k*(n+0.5)/(m-1)))^k
DocumentedProbability(k, nn, mm) ==
    mathPow(One - expNegSeries((One * k * (2 * nn + 1)) \div (2 * (mm - 1))), k)
Abs(x) == IF x < 0 THEN -x ELSE x
\* a hundredth: far above the error of the fixed-point arithmetic
Tolerance == One \div 100

\* C14: FalsePositiveProbability() equals (1 - e^(-k*(n+0.5)/(m-1)))^k of the
\* filter's current k, n and m, and the value after one more Add is greater
\* than or equal to the value before it.
C14_ProbabilityFormulaAndMonotone ==
    \A t \in Threads :
        AtRet(t, "Add") =>
            LET f == th[t].f
                before == fpp(K(f), gh[t].pre.n[f], M(f))
                after == FalsePosititveProbability(f)
            IN  /\ Abs(after - DocumentedProbability(K(f), N(f), M(f))) <= Tolerance
                /\ after >= before

\* the bit indices (h XOR key_i) mod m of hash v in filter f
Targets(f, v) == { Target(f, v, k) : k \in 1..Len(keys[f]) }
\* every target bit of hash v is set in filter x
AllSet(x, v) == \A b \in Targets(x, v) : IsSet(bits[x], b)

\* C15: Add(h), run alone, sets exactly the bits (h XOR key_i) mod m, changes
\* no other bit, adds 1 to n even when every target bit was set already, and
\* touches no other filter; with m = 64 and keys <<1>>, Add(5) on an empty
\* filter leaves bit 4 alone set, and then every x with (x XOR 1) mod 64 = 4
\* is contained.
C15_AddSetsExactlyTargets ==
    \A t \in Threads :
        AtRet(t, "Add") =>
            LET f == th[t].f
                old == gh[t].pre.bits[f]
            IN  /\ DOMAIN bits[f] = DOMAIN old
                /\ \A b \in 0..(64 * len(old) - 1) :
                       IsSet(bits[f], b) <=> (IsSet(old, b) \/ b \in Targets(f, th[t].v))
                /\ \A b \in Targets(f, th[t].v) : b < m[f]
                /\ n[f] = gh[t].pre.n[f] + 1
                /\ \A x \in FilterIds \ {f} : Untouched(t, x)
                /\ ( /\ m[f] = 64 /\ keys[f] = <<1>> /\ th[t].v = 5
                     /\ old = ZeroBits(64) )
                   => /\ bits[f] = (0 :> {4})
                      /\ \A x \in inputs : xor64(x, 1) % 64 = 4 => AllSet(f, x)

\* Add(69) has returned on the filter with m = 64 and keys <<1>> in which
\* Add(5) had set bit 4 already: no bit changed and n is 2.
C15_Witness ==
    \E t \in Threads :
        /\ AtRet(t, "Add") /\ th[t].v = 69
        /\ m[th[t].f] = 64 /\ keys[th[t].f] = <<1>>
        /\ gh[t].pre.bits[th[t].f] = (0 :> {4})
        /\ bits[th[t].f] = (0 :> {4})
        /\ added[th[t].f] = {5, 69}
        /\ n[th[t].f] = 2

\* C16: every bit index Add, AddC and Contains compute is below m and its
\* word index is below len(f.bits) = ceil(m/64); every word index Union and
\* UnionInPlace use on compatible filters is below the length of each vector
\* they index with it; and Add, AddC and Contains return without failing.
C16_NoOutOfRangeAccess ==
    \A t \in Threads :
        LET f == th[t].f
            f2 == th[t].f2
        IN  /\ th[t].pc \in {"Add_Or", "AddC_Load", "AddC_Or", "Contains_Load"} =>
                  LET i == th[t].h[th[t].i] % m[f]
                  IN  /\ i < m[f]
                      /\ wordIndex(i) \in DOMAIN bits[f]
                      /\ wordIndex(i) < (m[f] + 63) \div 64
            /\ th[t].pc \in {"UIP_Load", "UIP_LoadRest", "Union_Load_f2", "Union_LoadRest_f2"}
                  => th[t].i \in DOMAIN bits[f2]
            /\ th[t].pc = "UIP_Or" => th[t].i \in DOMAIN bits[f]
            /\ th[t].pc = "Union_Load_f" =>
                  th[t].i \in DOMAIN bits[f] /\ th[t].i \in DOMAIN bits[th[t].out]
            /\ th[t].pc = "ret" /\ th[t].op \in {"Add", "AddC", "Contains"}
                  => th[t].err = Nil

\* An Add is about to set a bit of the second word of a filter whose m, 70,
\* is not a multiple of 64.
C16_Witness ==
    \E t \in Threads :
        /\ th[t].pc = "Add_Or"
        /\ m[th[t].f] = 70
        /\ th[t].h[th[t].i] % 70 >= 64

\* C17: Contains(h), run alone, changes no bit, n, m or keys of any filter,
\* and returns true exactly when every bit (h XOR key_i) mod m is set.
C17_ContainsIsReadOnly ==
    \A t \in Threads :
        AtRet(t, "Contains") =>
            /\ \A x \in FilterIds :
                   /\ Untouched(t, x)
                   /\ m[x] = gh[t].pre.m[x]
                   /\ keys[x] = gh[t].pre.keys[x]
            /\ th[t].ok <=> AllSet(th[t].f, th[t].v)

\* Contains has returned true for a hash that was never added to the filter:
\* another hash had set both of its bits.
C17_Witness ==
    \E t \in Threads :
        /\ AtRet(t, "Contains") /\ th[t].ok
        /\ th[t].v \notin added[th[t].f]
        /\ Len(keys[th[t].f]) = 2
        /\ n[th[t].f] = 1

\* C19: when the only calls made are AddC calls of one hash on one filter,
\* one alone or two at once, and a target bit of the hash was unset when the
\* first of them started, then at least one of them returns false.
C19_SomeAddCReportsNew ==
    \A t, u \in Threads :
        /\ AtRet(t, "AddC") /\ AtRet(u, "AddC")
        /\ th[t].f = th[u].f /\ th[t].v = th[u].v
        /\ calls = Cardinality({t, u})
        /\ \/ \E b \in Targets(th[t].f, th[t].v) : ~IsSet(gh[t].pre.bits[th[t].f], b)
           \/ \E b \in Targets(th[u].f, th[u].v) : ~IsSet(gh[u].pre.bits[th[u].f], b)
        => ~th[t].ok \/ ~th[u].ok

\* Two AddC calls of the same new hash ran at once and both returned false.
C19_Witness ==
    \E t, u \in Threads :
        /\ t # u /\ calls = 2
        /\ AtRet(t, "AddC") /\ AtRet(u, "AddC")
        /\ th[t].f = th[u].f /\ th[t].v = th[u].v
        /\ ~th[t].ok /\ ~th[u].ok
        /\ gh[t].pre.bits[th[t].f] = gh[u].pre.bits[th[u].f]

\* C20: when UnionInPlace(f, f2) returns without error, f contains every hash
\* whose Add or AddC on f or on f2 had returned before the union started, and
\* so does the filter returned by Union(f, f2), also while Add and AddC calls
\* run on f or f2 at the same time.
C20_UnionPreservesMembership ==
    \A t \in Threads :
        /\ AtRet(t, "UnionInPlace") /\ th[t].err = Nil =>
              \A v \in gh[t].had[th[t].f] \cup gh[t].had[th[t].f2] : AllSet(th[t].f, v)
        /\ AtRet(t, "Union") /\ th[t].err = Nil =>
              \A v \in gh[t].had[th[t].f] \cup gh[t].had[th[t].f2] : AllSet(th[t].out, v)

\* A UnionInPlace of a filter that held an item has returned while an AddC on
\* that filter is between two of its bit accesses.
C20_Witness ==
    \E t, u \in Threads :
        /\ AtRet(t, "UnionInPlace") /\ th[t].err = Nil
        /\ th[t].f # th[t].f2
        /\ gh[t].had[th[t].f2] # {}
        /\ th[u].op = "AddC" /\ th[u].f = th[t].f2 /\ MidInsertion(u)

====
